---------------------------- MODULE Spec2Model ----------------------------
(***************************************************************************)
(* A model of statsmodels/base/constraint.py: class ConstraintProjector.   *)
(*                                                                         *)
(*   __init__(x_min, x_max, A, b)  lines 20-44                             *)
(*   project(goal)                 lines 46-60                             *)
(*                                                                         *)
(* Numbers.  Every coordinate (x_min, x_max, b, goal, x) is an integer     *)
(* that counts HALVES: the model's 5 is the program's 2.5.  The entries of *)
(* A are plain integers, so A@x <= b reads the same in both.  Arguments    *)
(* are whole numbers (even counts of halves).  Results are exact: the      *)
(* solver's floating-point tolerance is not modelled.                      *)
(*                                                                         *)
(* cvxpy.  The library is not part of the file; the model takes from it    *)
(* what the file's calls rely on:                                          *)
(*   - building A@self.x (line 37) raises ValueError unless the number of  *)
(*     columns of A is the length of the variable;                         *)
(*   - assigning to Parameter.value (line 55) raises ValueError unless the *)
(*     value has the shape of the parameter;                               *)
(*   - Problem.solve() either raises (SolverError, or the back end         *)
(*     refusing an option it does not know, such as wamr_start), or sets   *)
(*     prob.status and the variable's value: the minimiser for "optimal",  *)
(*     a nearby point for "optimal_inaccurate", None for "infeasible" and  *)
(*     "infeasible_inaccurate".  Which of them a solve ends with is the    *)
(*     solver's choice.  cvxpy's other statuses without an optimum         *)
(*     ("user_limit", ...) differ from these in name only for this file,   *)
(*     which compares the status with 'infeasible' and 'optimal' alone.    *)
(***************************************************************************)
EXTENDS Integers, Sequences, FiniteSets, TLC

VARIABLES
    x_min, x_max, A, b,   \* the arguments of __init__ (never reassigned)
    pc,                   \* "call"    __init__ is about to run (line 20)
                          \* "failed"  __init__ raised
                          \* "ready"   __init__ returned, no project call yet
                          \* "returned" / "raised"  how the last project call ended
    raised,               \* source line of the raise that ended the last call, 0: none
    self,                 \* self.x_min, self.x_max, self.A, self.b (lines 30-33)
    prob,                 \* the constraints of self.prob (line 37)
    goal_value,           \* self.goal.value
    x_value,              \* self.x.value
    status,               \* self.prob.status
    goal,                 \* argument of the last project call
    seed,                 \* self.x.value when the last project call started its solve,
                          \* None if it started none
    reported,             \* status the solve of the last project call ended with
    ret                   \* value the last project call returned

args == <<x_min, x_max, A, b>>
solver == <<self, prob, goal_value, x_value, status>>
call == <<goal, seed, reported, ret>>
vars == <<x_min, x_max, A, b, pc, raised, self, prob, goal_value, x_value,
          status, goal, seed, reported, ret>>

(***************************************************************************)
(* Bounds of the model.                                                    *)
(***************************************************************************)
\* Longest vector and widest matrix among Spec's constructor arguments.
MaxLen == 2

None == <<>>
NoStatus == "None"

(***************************************************************************)
(* Arrays.  A vector is a sequence; a matrix is its shape and its rows, so *)
(* that a matrix without rows still has a number of columns (A.shape[1]).  *)
(***************************************************************************)
Matrix(k, m, rows) == [shape |-> <<k, m>>, rows |-> rows]

RECURSIVE DotFrom(_, _, _)
DotFrom(r, x, i) ==
    IF i > Len(r) THEN 0 ELSE r[i] * x[i] + DotFrom(r, x, i + 1)

\* One entry of A@x.
Dot(r, x) == DotFrom(r, x, 1)

RECURSIVE SumSquaresFrom(_, _, _)
SumSquaresFrom(x, g, i) ==
    IF i > Len(x) THEN 0
    ELSE (x[i] - g[i]) * (x[i] - g[i]) + SumSquaresFrom(x, g, i + 1)

\* cost = cp.sum_squares(self.x - self.goal), line 38 (in squared halves).
SumSquares(x, g) == SumSquaresFrom(x, g, 1)


(***************************************************************************)
(* The problem of lines 36-39: minimise sum_squares(x - goal) subject to   *)
(* x >= x_min, x <= x_max, A@x <= b.                                       *)
(***************************************************************************)
\* constraints = [self.x >= x_min, self.x <= x_max, A@self.x <= b], line 37.
Constraints(xm, xM, a, bb) == [x_min |-> xm, x_max |-> xM, A |-> a, b |-> bb]

\* The object before line 30 has run, and the problem before line 39 has.
Unset == [x_min |-> None, x_max |-> None, A |-> Matrix(0, 0, <<>>), b |-> None]

\* x meets every constraint of p.
Satisfies(p, x) ==
    /\ \A i \in 1..Len(x) : p.x_min[i] <= x[i] /\ x[i] <= p.x_max[i]
    /\ \A k \in 1..p.A.shape[1] : Dot(p.A.rows[k], x) <= p.b[k]

\* The half-grid points x with lo[j] <= x[j] <= hi[j] for the first i places.
RECURSIVE Points(_, _, _)
Points(lo, hi, i) ==
    IF i = 0 THEN {<<>>}
    ELSE {Append(x, v) : x \in Points(lo, hi, i - 1), v \in lo[i]..hi[i]}

\* The feasible set of p, on the half-grid.
Feasible(p) ==
    {x \in Points(p.x_min, p.x_max, Len(p.x_min)) : Satisfies(p, x)}

\* The point of the feasible set closest to g (the set is not empty).
Minimiser(p, g) ==
    LET F == Feasible(p)
    IN  CHOOSE x \in F : \A y \in F : SumSquares(x, g) <= SumSquares(y, g)

\* Where a solve that stopped short of optimality may leave the variable:
\* the minimiser or the half-grid point next to it along the first axis
\* (which the constraints may exclude).
Nearby(x) == {x, [x EXCEPT ![1] = x[1] + 1]}

(***************************************************************************)
(* Problem.solve, lines 42 and 57, with the parameter self.goal bound to   *)
(* g: the ways the call can end.  raises: the call raised and left status  *)
(* and value as they were; otherwise status and x are what it stored.      *)
(***************************************************************************)
SolveResults(p, g) ==
    {[raises |-> TRUE, status |-> NoStatus, x |-> None]}
    \cup
    IF Feasible(p) = {}
    THEN {[raises |-> FALSE, status |-> s, x |-> None] :
             s \in {"infeasible", "infeasible_inaccurate"}}
    ELSE LET opt == Minimiser(p, g)
         IN  {[raises |-> FALSE, status |-> "optimal", x |-> opt]}
             \cup
             {[raises |-> FALSE, status |-> "optimal_inaccurate", x |-> y] :
                 y \in Nearby(opt)}

(***************************************************************************)
(* __init__, lines 20-44.  Each operator gives the set of states the       *)
(* object can be left in.                                                  *)
(***************************************************************************)
\* One of the raise statements of lines 23, 25 and 27: nothing is stored yet.
RaiseUnbuilt(line) ==
    [pc |-> "failed", raised |-> line, self |-> Unset, prob |-> Unset,
     goal_value |-> None, x_value |-> None, status |-> NoStatus]

\* Lines 41-44 once the solve of line 42 has ended with r.
InitEnd(me, p, xm, r) ==
    IF r.raises
    THEN [pc |-> "failed", raised |-> 42, self |-> me, prob |-> p,
          goal_value |-> xm, x_value |-> None, status |-> NoStatus]
    ELSE IF r.status = "infeasible"
    THEN [pc |-> "failed", raised |-> 44, self |-> me, prob |-> p,
          goal_value |-> xm, x_value |-> r.x, status |-> r.status]
    ELSE [pc |-> "ready", raised |-> 0, self |-> me, prob |-> p,
          goal_value |-> xm, x_value |-> r.x, status |-> r.status]

\* Lines 29-44.  cvxpy refuses A@self.x at line 37 unless A has n_dim columns.
InitBody(xm, xM, a, bb) ==
    LET n_dim == Len(xm)
        me == [x_min |-> xm, x_max |-> xM, A |-> a, b |-> bb]
    IN  IF a.shape[2] # n_dim
        THEN {[pc |-> "failed", raised |-> 37, self |-> me, prob |-> Unset,
               goal_value |-> None, x_value |-> None, status |-> NoStatus]}
        ELSE {InitEnd(me, Constraints(xm, xM, a, bb), xm, r) :
                 r \in SolveResults(Constraints(xm, xM, a, bb), xm)}

\* Lines 20-44 without the check of lines 24-25.
InitOutcomesNoColumnCheck(xm, xM, a, bb) ==
    IF Len(xm) # Len(xM) THEN {RaiseUnbuilt(23)}
    ELSE IF Len(bb) # a.shape[1] THEN {RaiseUnbuilt(27)}
    ELSE InitBody(xm, xM, a, bb)

\* Lines 20-44: the checks of lines 22-27, then the body.
InitOutcomes(xm, xM, a, bb) ==
    IF Len(xm) # Len(xM) THEN {RaiseUnbuilt(23)}
    ELSE IF a.shape[2] = Len(xm) THEN {RaiseUnbuilt(25)}
    ELSE IF Len(bb) # a.shape[1] THEN {RaiseUnbuilt(27)}
    ELSE InitBody(xm, xM, a, bb)

(***************************************************************************)
(* project, lines 46-60, called with goal g on an object whose fields are  *)
(* me, p, gv (goal.value), xv (x.value) and st (prob.status).              *)
(***************************************************************************)
\* Lines 57-60 once the solve of line 57, started from sd, has ended with r.
ProjectEnd(me, p, st, sd, g, r) ==
    IF r.raises
    THEN [pc |-> "raised", raised |-> 57, self |-> me, prob |-> p,
          goal_value |-> g, x_value |-> sd, status |-> st,
          seed |-> sd, reported |-> NoStatus, ret |-> None]
    ELSE IF r.status # "optimal"
    THEN [pc |-> "raised", raised |-> 59, self |-> me, prob |-> p,
          goal_value |-> g, x_value |-> r.x, status |-> r.status,
          seed |-> sd, reported |-> r.status, ret |-> None]
    ELSE [pc |-> "returned", raised |-> 0, self |-> me, prob |-> p,
          goal_value |-> g, x_value |-> r.x, status |-> r.status,
          seed |-> sd, reported |-> r.status, ret |-> r.x]

\* Lines 55-60.  Line 55 assigns g to the Parameter(n_dim) of line 35, which
\* cvxpy refuses (ValueError) for a g that is not of length n_dim: the call
\* ends there and the object is as it was.  Otherwise goal.value (line 55)
\* and x.value (line 56) are set to g, the solve of line 57 starts from
\* there, and lines 58-60 end the call.
ProjectOutcomes(me, p, gv, xv, st, g) ==
    IF Len(g) # Len(me.x_min)
    THEN {[pc |-> "raised", raised |-> 55, self |-> me, prob |-> p,
           goal_value |-> gv, x_value |-> xv, status |-> st,
           seed |-> None, reported |-> NoStatus, ret |-> None]}
    ELSE {ProjectEnd(me, p, st, g, g, r) : r \in SolveResults(p, g)}

(***************************************************************************)
(* Arguments.                                                              *)
(***************************************************************************)
\* The vectors of length n over the values vs.
RECURSIVE Vectors(_, _)
Vectors(n, vs) ==
    IF n = 0 THEN {<<>>}
    ELSE {Append(x, v) : x \in Vectors(n - 1, vs), v \in vs}

\* The matrices of k rows and m columns over the entries es.
Matrices(k, m, es) == {Matrix(k, m, rows) : rows \in Vectors(k, Vectors(m, es))}

\* Spec: vectors of 1..MaxLen whole numbers, matrices of at most one row and
\* 1..MaxLen columns, right-hand sides of at most one entry, of every shape,
\* matching or not.
BoundVectors == UNION {Vectors(n, {0, 2}) : n \in 1..MaxLen}
AnyMatrices == UNION {Matrices(k, m, {0, 1}) : k \in 0..1, m \in 1..MaxLen}
AnyRhs == Vectors(0, {0, 2}) \cup Vectors(1, {0, 2})

\* x_min=[0,0], x_max=[10,10], A=[[1,1]], b=[5], and x_min=[0,5], x_max=[1,1]
\* with the same A and b.
ExampleRegion == <<<<0, 0>>, <<20, 20>>, Matrix(1, 2, <<<<1, 1>>>>), <<10>>>>
ExampleEmptyBox == <<<<0, 10>>, <<2, 2>>, Matrix(1, 2, <<<<1, 1>>>>), <<10>>>>

Arguments ==
    (BoundVectors \X BoundVectors \X AnyMatrices \X AnyRhs)
    \cup {ExampleRegion, ExampleEmptyBox}

\* The goals of project: whole-number vectors of every length.
Goals == BoundVectors

(***************************************************************************)
(* The state machine.                                                      *)
(***************************************************************************)
NoCall ==
    /\ goal = None /\ seed = None /\ reported = NoStatus /\ ret = None

Unbuilt ==
    /\ raised = 0 /\ self = Unset /\ prob = Unset
    /\ goal_value = None /\ x_value = None /\ status = NoStatus

\* ConstraintProjector(x_min, x_max, A, b) is about to be evaluated.
Init ==
    /\ \E r \in Arguments :
          x_min = r[1] /\ x_max = r[2] /\ A = r[3] /\ b = r[4]
    /\ pc = "call"
    /\ Unbuilt
    /\ NoCall

Store(o) ==
    /\ pc' = o.pc
    /\ raised' = o.raised
    /\ self' = o.self
    /\ prob' = o.prob
    /\ goal_value' = o.goal_value
    /\ x_value' = o.x_value
    /\ status' = o.status

\* __init__, lines 20-44.
Construct ==
    /\ pc = "call"
    /\ \E o \in InitOutcomes(x_min, x_max, A, b) : Store(o)
    /\ UNCHANGED <<args, call>>

Constructed == {"ready", "returned", "raised"}

\* project(g), lines 46-60.
Project(g) ==
    /\ pc \in Constructed
    /\ \E o \in ProjectOutcomes(self, prob, goal_value, x_value, status, g) :
          /\ Store(o)
          /\ seed' = o.seed
          /\ reported' = o.reported
          /\ ret' = o.ret
    /\ goal' = g
    /\ UNCHANGED args

(***************************************************************************)
(* Spec is the class as written.  Line 24 refuses every A whose number of  *)
(* columns is len(x_min), and line 37 refuses every other A, so __init__   *)
(* returns for no arguments (NeverConstructed).  Project needs the object  *)
(* and is enabled in no reachable state (ProjectNeverEnabled), so the      *)
(* constructor call is the only step the class takes.                      *)
(***************************************************************************)
Next == Construct

Spec == Init /\ [][Next]_vars

(***************************************************************************)
(* Properties.                                                             *)
(***************************************************************************)
TypeOK ==
    /\ pc \in {"call", "failed", "ready", "returned", "raised"}
    /\ raised \in {0, 23, 25, 27, 37, 42, 44, 55, 57, 59}
    /\ status \in {NoStatus, "optimal", "optimal_inaccurate", "infeasible",
                   "infeasible_inaccurate"}

\* The shapes of the arguments agree.
Consistent ==
    /\ Len(x_min) = Len(x_max)
    /\ A.shape[2] = Len(x_min)
    /\ Len(b) = A.shape[1]

\* The region of the arguments: {x : x_min <= x <= x_max, A@x <= b}.
Region == [x_min |-> x_min, x_max |-> x_max, A |-> A, b |-> b]

\* The shapes agree and some x meets x_min <= x <= x_max and A@x <= b.
NonEmpty == Consistent /\ Feasible(Region) # {}

\* The call of __init__ has ended.
Ended == pc # "call"

\* No call of __init__ returns.
NeverConstructed == pc \notin Constructed

\* No project call can be made: there is no object to make it on.
ProjectNeverEnabled == \A g \in Goals : ~ENABLED Project(g)

(* C1: a construction that returns normally has arguments of agreeing      *)
(* shapes (len(x_min) = len(x_max) = columns of A, len(b) = rows of A) and *)
(* a region with at least one point; no other input is accepted.           *)
C1_AcceptedRegionIsValid == pc \in Constructed => Consistent /\ NonEmpty

\* An input whose shapes disagree has been through __init__ and was refused.
C1_Witness == pc = "failed" /\ ~Consistent /\ Len(x_min) = Len(x_max)

(* C2: for len(x_min) = len(x_max), __init__ raises at its second check    *)
(* (line 25) exactly when the number of columns of A differs from          *)
(* len(x_min).                                                             *)
C2_ColumnCheckRaisesOnMismatch ==
    Ended /\ Len(x_min) = Len(x_max) =>
        (raised = 25 <=> A.shape[2] # Len(x_min))

(* C3: for arguments of agreeing shapes whose region is empty, __init__    *)
(* fails with the infeasibility error (line 44).                           *)
C3_EmptyRegionIsRefusedAsInfeasible ==
    Ended /\ Consistent /\ Feasible(Region) = {} => raised = 44

(* C5: for x_min=[0,0], x_max=[10,10], A=[[1,1]], b=[5] the constructor    *)
(* yields a solver whose project([10,10]) returns [2.5,2.5], the feasible  *)
(* point closest to the goal.                                              *)
C5_ExampleProjectsToClosestPoint ==
    Ended /\ <<x_min, x_max, A, b>> = ExampleRegion =>
        /\ pc = "ready"
        /\ LET outs == ProjectOutcomes(self, prob, goal_value, x_value,
                                       status, <<20, 20>>)
           IN  /\ \E o \in outs : o.pc = "returned"
               /\ \A o \in outs : o.pc = "returned" => o.ret = <<5, 5>>

(* C9: for a non-empty region, project of a goal inside the region returns *)
(* the goal itself.                                                        *)
C9_FeasibleGoalIsReturned ==
    Ended /\ NonEmpty =>
        /\ pc \in Constructed
        /\ \A g \in Feasible(Region) :
              LET outs == ProjectOutcomes(self, prob, goal_value, x_value,
                                          status, g)
              IN  /\ \E o \in outs : o.pc = "returned"
                  /\ \A o \in outs : o.pc = "returned" => o.ret = g

=============================================================================
